---- MODULE Spec2Model ----
(***************************************************************************)
(* Model of aqt.mediasync.MediaSyncer (src/qt/aqt/mediasync.py): the       *)
(* single-flight media-sync controller, its time-stamped log, cooperative  *)
(* cancellation and classification of the outcome of a run.                *)
(*                                                                         *)
(* start(), abort(), _on_finished() and seconds_since_last_sync() run on   *)
(* the main (GUI) thread and are one action each.  _on_rust_progress() is  *)
(* called by the backend on the worker thread that runs sync_media(), so   *)
(* it is split at the points where the main thread can interleave: the     *)
(* append to the log, the run_on_main() hand-over and the read of          *)
(* _want_stop.                                                             *)
(*                                                                         *)
(* Second part: anki.notes.Note (src/pylib/anki/notes.py), the in-memory   *)
(* note with its dict interface and its duplicate check against the notes  *)
(* stored in the collection.  The two parts share no state: Spec runs the  *)
(* media syncer and NoteSpec the note.                                     *)
(***************************************************************************)
EXTENDS Naturals, Sequences, FiniteSets

\* ---------------------------------------------------------------- bounds
\* longest log explored
MaxLog == 4
\* the clock (intTime(), seconds) runs from 1 to MaxTime
MaxTime == 2
\* most notes stored in the collection
MaxNotes == 1
\* longest log explored while the clock stands still
MaxRerunLog == 6

\* ------------------------------------------------------------- constants
None == "None"
HKey == "hkey"

MsgDisabled == "Media syncing disabled."
MsgStarting == "Media sync starting..."
MsgComplete == "Media sync complete."
MsgAborted == "Media sync aborted."
MsgFailed == "Media sync failed."
MsgAborting == "Media sync aborting..."

WarnAuth == "AnkiWeb ID or password was incorrect; please try again."
WarnServer == "AnkiWeb encountered a problem. Please try again in a few minutes."
WarnMediaCheck == "Please use the Tools>Check Media menu option."
WarnResync == "Please sync again, and post on the support forum if this message keeps appearing."
WarnUnexpected == "Unexpected error: {}"
WarnConnection == "Syncing failed; please check your internet connection."
WarnDB == "Problem accessing the media database: {}"

\* the exceptions future.exception() can carry; None is a run without one
Interrupted == [type |-> "Interrupted", kind |-> None]
SyncErrorKinds ==
    {"AUTH_FAILED", "SERVER_ERROR", "MEDIA_CHECK_REQUIRED", "RESYNC_REQUIRED", "OTHER"}
NetworkErrorKinds == {"OFFLINE", "TIMEOUT", "OTHER"}
SyncErrors == [type : {"SyncError"}, kind : SyncErrorKinds]
NetworkErrors == [type : {"NetworkError"}, kind : NetworkErrorKinds]
DBError == [type : {"DBError"}, kind : {None}]
\* any exception that is none of the imported classes
Unclassified == [type : {"Exception"}, kind : {None}]
NoException == [type |-> None, kind |-> None]
Failures == SyncErrors \cup NetworkErrors \cup DBError \cup Unclassified
Outcomes == {NoException, Interrupted} \cup Failures


\* ----------------------------------------------------------------- state
VARIABLES
    syncing,        \* self._syncing
    log,            \* self._log, a sequence of LogEntryWithTime
    want_stop,      \* self._want_stop
    sync_key,       \* mw.pm.sync_key(): None or the stored key
    media_enabled,  \* mw.pm.media_syncing_enabled()
    now,            \* intTime()
    running,        \* sync_media() operations running on the worker
    finished,       \* the number of done futures whose on_done has not run yet
    cb,             \* the frame of _on_rust_progress on the worker thread
    main_queue,     \* closures handed to taskman.run_on_main, in order
    delivered,      \* entries gui_hooks.media_sync_did_progress has seen
    start_stop,     \* arguments of gui_hooks.media_sync_did_start_or_stop
    warnings,       \* the number of showWarning() calls made
    last,           \* the call the latest step made, if it made one
    note,           \* the Note object: id, mid, tags, fields
    db,             \* the notes table of the collection, db[id] the note id
    ret             \* the latest call on the Note and the exception it raised

vars == <<syncing, log, want_stop, sync_key, media_enabled, now, running,
          finished, cb, main_queue, delivered, start_stop, warnings, last,
          note, db, ret>>

mediaVars == <<syncing, log, want_stop, sync_key, media_enabled, now, running,
               finished, cb, main_queue, delivered, start_stop, warnings, last>>
noteVars == <<note, db, ret>>

\* no Note has been constructed, no call made on one
NoNote == [id |-> 0, mid |-> 0, tags |-> <<>>, fields |-> <<>>]
NoRet == [op |-> "__init__", exc |-> None]

LogEntryWithTime(t, e) == [time |-> t, entry |-> e]

\* LogEntry = Union[MediaSyncProgress, str], as a tagged record
Str(s) == [tag |-> "str", str |-> s, checked |-> 0]
Progress(c) == [tag |-> "MediaSyncProgress", str |-> "", checked |-> c]

\* progress.val of a MediaSyncProgress event: one snapshot stands for all, the
\* controller stores it and never reads its counters
ProgressVals == {Progress(1)}

\* the worker is not inside _on_rust_progress
IdleFrame ==
    [pc |-> "idle", proceed |-> FALSE, entry |-> LogEntryWithTime(0, Str("")),
     stop_at_entry |-> FALSE]

\* `last` describes the latest step when it was a call of start(), abort() or
\* _on_finished(), or the return of _on_rust_progress() from a
\* MediaSyncProgress event, and is NoCall after any other step.  It holds the
\* operation, self._syncing and self._want_stop when it was entered, its
\* arguments (kind, proceed, exc) and its result (ret, what it did to its
\* collaborators, raised)
NoCall ==
    [op |-> "__init__", was_syncing |-> FALSE, stop_at_entry |-> FALSE,
     kind |-> None, proceed |-> FALSE, exc |-> [type |-> None, kind |-> None],
     ret |-> FALSE, effects |-> <<>>, raised |-> FALSE]

\* operations launched by run_in_background whose on_done has not run
InFlight == running + finished

\* The log the exploration stops at: max entries, counting the one every
\* operation in flight appends when it completes (so that a completion
\* always fits)
Fits(max) == Len(log) + InFlight <= max

Init ==
    /\ syncing = FALSE
    /\ log = <<>>
    /\ want_stop = FALSE
    /\ sync_key \in {None, HKey}
    /\ media_enabled \in BOOLEAN
    /\ now = 1
    /\ running = 0
    /\ finished = 0
    /\ cb = IdleFrame
    /\ main_queue = <<>>
    /\ delivered = <<>>
    /\ start_stop = <<>>
    /\ warnings = 0
    /\ last = NoCall
    /\ note = NoNote
    /\ db = <<>>
    /\ ret = NoRet

\* --------------------------------------------------------- _log_and_notify
\* _log_and_notify that keeps the newest entry first
log_and_notify_newest_first(entry) ==
    /\ log' = <<LogEntryWithTime(now, entry)>> \o log
    /\ main_queue' = Append(main_queue, LogEntryWithTime(now, entry))

\* on the calling thread: stamp the entry, append it, queue the notification
log_and_notify(entry) ==
    /\ log' = Append(log, LogEntryWithTime(now, entry))
    /\ main_queue' = Append(main_queue, LogEntryWithTime(now, entry))

\* ------------------------------------------------------ _on_rust_progress
\* an event of another kind (lines 50-51): `proceed` is returned as given and
\* nothing is touched
on_rust_progress_other(proceed) ==
    /\ cb.pc = "idle"
    /\ last' = NoCall
    /\ UNCHANGED <<syncing, log, want_stop, sync_key, media_enabled, now, running,
                   finished, cb, main_queue, delivered, start_stop, warnings>>
    /\ UNCHANGED noteVars

\* a MediaSyncProgress event of the running sync_media(): the entry is
\* stamped and appended to self._log on the worker thread
on_rust_progress_append(proceed, val) ==
    /\ running > 0
    /\ cb.pc = "idle"
    /\ log' = Append(log, LogEntryWithTime(now, val))
    /\ cb' = [pc |-> "appended", proceed |-> proceed,
              entry |-> LogEntryWithTime(now, val), stop_at_entry |-> want_stop]
    /\ last' = NoCall
    /\ UNCHANGED <<syncing, want_stop, sync_key, media_enabled, now, running,
                   finished, main_queue, delivered, start_stop, warnings>>
    /\ UNCHANGED noteVars

\* the worker hands the notification of its entry to the main thread
on_rust_progress_notify ==
    /\ cb.pc = "appended"
    /\ main_queue' = Append(main_queue, cb.entry)
    /\ cb' = [cb EXCEPT !.pc = "notified"]
    /\ last' = NoCall
    /\ UNCHANGED <<syncing, log, want_stop, sync_key, media_enabled, now, running,
                   finished, delivered, start_stop, warnings>>
    /\ UNCHANGED noteVars

\* _on_rust_progress that forgets self._want_stop
progress_result_unlatched(proceed) == proceed

\* the value _on_rust_progress returns after a MediaSyncProgress event
progress_result(proceed) == IF want_stop THEN FALSE ELSE proceed

on_rust_progress_return ==
    /\ cb.pc = "notified"
    /\ cb' = IdleFrame
    /\ last' = [NoCall EXCEPT !.op = "_on_rust_progress",
                              !.stop_at_entry = cb.stop_at_entry,
                              !.kind = "MediaSyncProgress",
                              !.proceed = cb.proceed,
                              !.ret = progress_result(cb.proceed)]
    /\ UNCHANGED <<syncing, log, want_stop, sync_key, media_enabled, now, running,
                   finished, main_queue, delivered, start_stop, warnings>>
    /\ UNCHANGED noteVars

\* ------------------------------------------------------------------ start
\* start() without the check of self._syncing
start_reentrant ==
    /\ \/ /\ sync_key = None
          /\ UNCHANGED <<syncing, log, want_stop, running, main_queue, start_stop>>
       \/ /\ sync_key # None
          /\ ~media_enabled
          /\ log_and_notify(Str(MsgDisabled))
          /\ UNCHANGED <<syncing, want_stop, running, start_stop>>
       \/ /\ sync_key # None
          /\ media_enabled
          /\ log_and_notify(Str(MsgStarting))
          /\ syncing' = TRUE
          /\ want_stop' = FALSE
          /\ start_stop' = Append(start_stop, TRUE)
          /\ running' = running + 1
    /\ last' = [NoCall EXCEPT !.op = "start", !.was_syncing = syncing]
    /\ UNCHANGED <<sync_key, media_enabled, now, finished, cb, delivered, warnings>>
    /\ UNCHANGED noteVars

\* start() that marks the run as started before it looks at the configuration
start_marks_syncing_first ==
    /\ \/ /\ syncing
          /\ UNCHANGED <<syncing, log, want_stop, running, main_queue, start_stop>>
       \/ /\ ~syncing
          /\ sync_key = None
          /\ syncing' = TRUE
          /\ want_stop' = FALSE
          /\ UNCHANGED <<log, running, main_queue, start_stop>>
       \/ /\ ~syncing
          /\ sync_key # None
          /\ ~media_enabled
          /\ log_and_notify(Str(MsgDisabled))
          /\ syncing' = TRUE
          /\ want_stop' = FALSE
          /\ UNCHANGED <<running, start_stop>>
       \/ /\ ~syncing
          /\ sync_key # None
          /\ media_enabled
          /\ log_and_notify(Str(MsgStarting))
          /\ syncing' = TRUE
          /\ want_stop' = FALSE
          /\ start_stop' = Append(start_stop, TRUE)
          /\ running' = running + 1
    /\ last' = [NoCall EXCEPT !.op = "start", !.was_syncing = syncing]
    /\ UNCHANGED <<sync_key, media_enabled, now, finished, cb, delivered, warnings>>
    /\ UNCHANGED noteVars

\* start() that logs "Media syncing disabled." for a missing sync key too
start_logs_missing_key ==
    /\ \/ /\ syncing
          /\ UNCHANGED <<syncing, log, want_stop, running, main_queue, start_stop>>
       \/ /\ ~syncing
          /\ sync_key = None \/ ~media_enabled
          /\ log_and_notify(Str(MsgDisabled))
          /\ UNCHANGED <<syncing, want_stop, running, start_stop>>
       \/ /\ ~syncing
          /\ sync_key # None
          /\ media_enabled
          /\ log_and_notify(Str(MsgStarting))
          /\ syncing' = TRUE
          /\ want_stop' = FALSE
          /\ start_stop' = Append(start_stop, TRUE)
          /\ running' = running + 1
    /\ last' = [NoCall EXCEPT !.op = "start", !.was_syncing = syncing]
    /\ UNCHANGED <<sync_key, media_enabled, now, finished, cb, delivered, warnings>>
    /\ UNCHANGED noteVars

\* start() that leaves the cancellation flag as the previous run left it
start_keeps_want_stop ==
    /\ \/ /\ syncing
          /\ UNCHANGED <<syncing, log, want_stop, running, main_queue, start_stop>>
       \/ /\ ~syncing
          /\ sync_key = None
          /\ UNCHANGED <<syncing, log, want_stop, running, main_queue, start_stop>>
       \/ /\ ~syncing
          /\ sync_key # None
          /\ ~media_enabled
          /\ log_and_notify(Str(MsgDisabled))
          /\ UNCHANGED <<syncing, want_stop, running, start_stop>>
       \/ /\ ~syncing
          /\ sync_key # None
          /\ media_enabled
          /\ log_and_notify(Str(MsgStarting))
          /\ syncing' = TRUE
          /\ UNCHANGED want_stop
          /\ start_stop' = Append(start_stop, TRUE)
          /\ running' = running + 1
    /\ last' = [NoCall EXCEPT !.op = "start", !.was_syncing = syncing]
    /\ UNCHANGED <<sync_key, media_enabled, now, finished, cb, delivered, warnings>>
    /\ UNCHANGED noteVars

start ==
    /\ \/ /\ syncing
          /\ UNCHANGED <<syncing, log, want_stop, running, main_queue, start_stop>>
       \/ /\ ~syncing
          /\ sync_key = None
          /\ UNCHANGED <<syncing, log, want_stop, running, main_queue, start_stop>>
       \/ /\ ~syncing
          /\ sync_key # None
          /\ ~media_enabled
          /\ log_and_notify(Str(MsgDisabled))
          /\ UNCHANGED <<syncing, want_stop, running, start_stop>>
       \/ /\ ~syncing
          /\ sync_key # None
          /\ media_enabled
          /\ log_and_notify(Str(MsgStarting))
          /\ syncing' = TRUE
          /\ want_stop' = FALSE
          /\ start_stop' = Append(start_stop, TRUE)
          /\ running' = running + 1
    /\ last' = [NoCall EXCEPT !.op = "start", !.was_syncing = syncing]
    /\ UNCHANGED <<sync_key, media_enabled, now, finished, cb, delivered, warnings>>
    /\ UNCHANGED noteVars

\* ------------------------------------------------------------------ abort
\* abort() without the check of is_syncing()
abort_unguarded ==
    /\ log_and_notify(Str(MsgAborting))
    /\ want_stop' = TRUE
    /\ last' = [NoCall EXCEPT !.op = "abort", !.was_syncing = syncing]
    /\ UNCHANGED <<syncing, sync_key, media_enabled, now, running, finished, cb,
                   delivered, start_stop, warnings>>
    /\ UNCHANGED noteVars

\* abort() that ends the run at once instead of asking it to stop
abort_preempts ==
    /\ \/ /\ ~syncing
          /\ UNCHANGED <<syncing, log, main_queue, want_stop, start_stop>>
       \/ /\ syncing
          /\ log_and_notify(Str(MsgAborting))
          /\ want_stop' = TRUE
          /\ syncing' = FALSE
          /\ start_stop' = Append(start_stop, FALSE)
    /\ last' = [NoCall EXCEPT !.op = "abort", !.was_syncing = syncing]
    /\ UNCHANGED <<sync_key, media_enabled, now, running, finished, cb,
                   delivered, warnings>>
    /\ UNCHANGED noteVars

abort ==
    /\ \/ /\ ~syncing
          /\ UNCHANGED <<log, main_queue, want_stop>>
       \/ /\ syncing
          /\ log_and_notify(Str(MsgAborting))
          /\ want_stop' = TRUE
    /\ last' = [NoCall EXCEPT !.op = "abort", !.was_syncing = syncing]
    /\ UNCHANGED <<syncing, sync_key, media_enabled, now, running, finished, cb,
                   delivered, start_stop, warnings>>
    /\ UNCHANGED noteVars

\* ------------------------------------------------------------- completion
\* sync_media() returns or raises on the worker: the future is done.  What it
\* holds is first read by _on_finished, where the model chooses it
sync_media_returns ==
    /\ running > 0
    /\ cb.pc = "idle"
    /\ running' = running - 1
    /\ finished' = finished + 1
    /\ last' = NoCall
    /\ UNCHANGED <<syncing, log, want_stop, sync_key, media_enabled, now, cb,
                   main_queue, delivered, start_stop, warnings>>
    /\ UNCHANGED noteVars

\* A handler's effects on its collaborators, in program order
Log(msg) == [do |-> "_log_and_notify", arg |-> msg]
ShowWarning(msg) == [do |-> "showWarning", arg |-> msg]
SetSyncKey(key) == [do |-> "set_sync_key", arg |-> key]
StartOrStop(running_) == [do |-> "media_sync_did_start_or_stop", arg |-> running_]
Raise(exc) == [do |-> "raise", arg |-> exc.type]

\* _handle_sync_error that reports a database error in the log only
handle_sync_error_quiet_db(exc) ==
    IF exc.type = "Interrupted" THEN <<Log(MsgAborted)>>
    ELSE <<Log(MsgFailed)>> \o
        (IF exc.type = "SyncError" THEN
            IF exc.kind = "AUTH_FAILED" THEN <<SetSyncKey(None), ShowWarning(WarnAuth)>>
            ELSE IF exc.kind = "SERVER_ERROR" THEN <<ShowWarning(WarnServer)>>
            ELSE IF exc.kind = "MEDIA_CHECK_REQUIRED" THEN <<ShowWarning(WarnMediaCheck)>>
            ELSE IF exc.kind = "RESYNC_REQUIRED" THEN <<ShowWarning(WarnResync)>>
            ELSE <<ShowWarning(WarnUnexpected)>>
         ELSE IF exc.type = "NetworkError" THEN
            IF exc.kind \in {"OFFLINE", "TIMEOUT"} THEN <<ShowWarning(WarnConnection)>>
            ELSE <<ShowWarning(WarnUnexpected)>>
         ELSE IF exc.type = "DBError" THEN <<>>
         ELSE <<Raise(exc)>>)

\* _handle_sync_error that keeps the sync key after an authentication failure
handle_sync_error_keeps_key(exc) ==
    IF exc.type = "Interrupted" THEN <<Log(MsgAborted)>>
    ELSE <<Log(MsgFailed)>> \o
        (IF exc.type = "SyncError" THEN
            IF exc.kind = "AUTH_FAILED" THEN <<ShowWarning(WarnAuth)>>
            ELSE IF exc.kind = "SERVER_ERROR" THEN <<ShowWarning(WarnServer)>>
            ELSE IF exc.kind = "MEDIA_CHECK_REQUIRED" THEN <<ShowWarning(WarnMediaCheck)>>
            ELSE IF exc.kind = "RESYNC_REQUIRED" THEN <<ShowWarning(WarnResync)>>
            ELSE <<ShowWarning(WarnUnexpected)>>
         ELSE IF exc.type = "NetworkError" THEN
            IF exc.kind \in {"OFFLINE", "TIMEOUT"} THEN <<ShowWarning(WarnConnection)>>
            ELSE <<ShowWarning(WarnUnexpected)>>
         ELSE IF exc.type = "DBError" THEN <<ShowWarning(WarnDB)>>
         ELSE <<Raise(exc)>>)

\* _handle_sync_error that reports an unclassified failure instead of raising it
handle_sync_error_swallows(exc) ==
    IF exc.type = "Interrupted" THEN <<Log(MsgAborted)>>
    ELSE <<Log(MsgFailed)>> \o
        (IF exc.type = "SyncError" THEN
            IF exc.kind = "AUTH_FAILED" THEN <<SetSyncKey(None), ShowWarning(WarnAuth)>>
            ELSE IF exc.kind = "SERVER_ERROR" THEN <<ShowWarning(WarnServer)>>
            ELSE IF exc.kind = "MEDIA_CHECK_REQUIRED" THEN <<ShowWarning(WarnMediaCheck)>>
            ELSE IF exc.kind = "RESYNC_REQUIRED" THEN <<ShowWarning(WarnResync)>>
            ELSE <<ShowWarning(WarnUnexpected)>>
         ELSE IF exc.type = "NetworkError" THEN
            IF exc.kind \in {"OFFLINE", "TIMEOUT"} THEN <<ShowWarning(WarnConnection)>>
            ELSE <<ShowWarning(WarnUnexpected)>>
         ELSE IF exc.type = "DBError" THEN <<ShowWarning(WarnDB)>>
         ELSE <<ShowWarning(WarnUnexpected)>>)

\* _handle_sync_error without the `return` after "Media sync aborted."
handle_sync_error_no_return(exc) ==
    (IF exc.type = "Interrupted" THEN <<Log(MsgAborted)>> ELSE <<>>) \o
    <<Log(MsgFailed)>> \o
        (IF exc.type = "SyncError" THEN
            IF exc.kind = "AUTH_FAILED" THEN <<SetSyncKey(None), ShowWarning(WarnAuth)>>
            ELSE IF exc.kind = "SERVER_ERROR" THEN <<ShowWarning(WarnServer)>>
            ELSE IF exc.kind = "MEDIA_CHECK_REQUIRED" THEN <<ShowWarning(WarnMediaCheck)>>
            ELSE IF exc.kind = "RESYNC_REQUIRED" THEN <<ShowWarning(WarnResync)>>
            ELSE <<ShowWarning(WarnUnexpected)>>
         ELSE IF exc.type = "NetworkError" THEN
            IF exc.kind \in {"OFFLINE", "TIMEOUT"} THEN <<ShowWarning(WarnConnection)>>
            ELSE <<ShowWarning(WarnUnexpected)>>
         ELSE IF exc.type = "DBError" THEN <<ShowWarning(WarnDB)>>
         ELSE <<Raise(exc)>>)

\* _handle_sync_error(exc): what it does, in order
handle_sync_error(exc) ==
    IF exc.type = "Interrupted" THEN <<Log(MsgAborted)>>
    ELSE <<Log(MsgFailed)>> \o
        (IF exc.type = "SyncError" THEN
            IF exc.kind = "AUTH_FAILED" THEN <<SetSyncKey(None), ShowWarning(WarnAuth)>>
            ELSE IF exc.kind = "SERVER_ERROR" THEN <<ShowWarning(WarnServer)>>
            ELSE IF exc.kind = "MEDIA_CHECK_REQUIRED" THEN <<ShowWarning(WarnMediaCheck)>>
            ELSE IF exc.kind = "RESYNC_REQUIRED" THEN <<ShowWarning(WarnResync)>>
            ELSE <<ShowWarning(WarnUnexpected)>>
         ELSE IF exc.type = "NetworkError" THEN
            IF exc.kind \in {"OFFLINE", "TIMEOUT"} THEN <<ShowWarning(WarnConnection)>>
            ELSE <<ShowWarning(WarnUnexpected)>>
         ELSE IF exc.type = "DBError" THEN <<ShowWarning(WarnDB)>>
         ELSE <<Raise(exc)>>)

\* _on_finished that takes a requested stop for the outcome of the run
on_finished_effects_stop_wins(exc) ==
    <<StartOrStop("False")>> \o
        (IF exc # NoException THEN handle_sync_error(exc)
         ELSE IF want_stop THEN <<Log(MsgAborted)>> ELSE <<Log(MsgComplete)>>)

\* _on_finished(future) after `self._syncing = False`: what it does, in order
on_finished_effects(exc) ==
    <<StartOrStop("False")>> \o
        (IF exc # NoException THEN handle_sync_error(exc) ELSE <<Log(MsgComplete)>>)

Doing(effects, what) == SelectSeq(effects, LAMBDA e : e.do = what)

\* the entries a handler's _log_and_notify calls append at time t
Logged(effects, t) ==
    LET logs == Doing(effects, "_log_and_notify")
    IN  [i \in 1..Len(logs) |-> LogEntryWithTime(t, Str(logs[i].arg))]

\* _on_finished that clears self._syncing and notifies the observers after
\* the outcome is handled, so that `raise exc` skips both
on_finished_clears_last(exc) ==
    /\ finished > 0
    /\ LET effects == on_finished_effects(exc)
           raises == Doing(effects, "raise") # <<>>
       IN
        /\ finished' = finished - 1
        /\ syncing' = IF raises THEN syncing ELSE FALSE
        /\ start_stop' = IF raises THEN start_stop ELSE Append(start_stop, FALSE)
        /\ log' = log \o Logged(effects, now)
        /\ main_queue' = main_queue \o Logged(effects, now)
        /\ sync_key' = IF Doing(effects, "set_sync_key") # <<>> THEN None ELSE sync_key
        /\ warnings' = warnings + Len(Doing(effects, "showWarning"))
        /\ last' = [NoCall EXCEPT !.op = "_on_finished", !.was_syncing = syncing,
                                  !.exc = exc, !.effects = effects, !.raised = raises]
    /\ UNCHANGED <<want_stop, media_enabled, now, running, cb, delivered>>
    /\ UNCHANGED noteVars

on_finished(exc) ==
    /\ finished > 0
    /\ LET effects == on_finished_effects(exc)
       IN
        /\ finished' = finished - 1
        /\ syncing' = FALSE
        /\ start_stop' = start_stop \o
               [i \in 1..Len(Doing(effects, "media_sync_did_start_or_stop")) |-> FALSE]
        /\ log' = log \o Logged(effects, now)
        /\ main_queue' = main_queue \o Logged(effects, now)
        /\ sync_key' = IF Doing(effects, "set_sync_key") # <<>> THEN None ELSE sync_key
        /\ warnings' = warnings + Len(Doing(effects, "showWarning"))
        /\ last' = [NoCall EXCEPT !.op = "_on_finished", !.was_syncing = syncing,
                                  !.exc = exc, !.effects = effects,
                                  !.raised = (Doing(effects, "raise") # <<>>)]
    /\ UNCHANGED <<want_stop, media_enabled, now, running, cb, delivered>>
    /\ UNCHANGED noteVars

\* -------------------------------------------------- seconds_since_last_sync
\* seconds_since_last_sync() without the check of is_syncing()
seconds_since_last_sync_unguarded ==
    now - (IF log # <<>> THEN log[Len(log)].time ELSE 0)

seconds_since_last_sync ==
    IF syncing THEN 0
    ELSE now - (IF log # <<>> THEN log[Len(log)].time ELSE 0)

\* a call of it: the controller is read and left as it is
seconds_since_last_sync_call ==
    /\ seconds_since_last_sync \in 0..MaxTime
    /\ last' = NoCall
    /\ UNCHANGED <<syncing, log, want_stop, sync_key, media_enabled, now, running,
                   finished, cb, main_queue, delivered, start_stop, warnings>>
    /\ UNCHANGED noteVars

\* ------------------------------------------------------------ environment
\* the main thread runs the next queued closure: the observers of
\* media_sync_did_progress see its entry
run_on_main ==
    /\ main_queue # <<>>
    /\ delivered' = Append(delivered, Head(main_queue))
    /\ main_queue' = Tail(main_queue)
    /\ last' = NoCall
    /\ UNCHANGED <<syncing, log, want_stop, sync_key, media_enabled, now, running,
                   finished, cb, start_stop, warnings>>
    /\ UNCHANGED noteVars

\* a second passes
tick ==
    /\ now < MaxTime
    /\ now' = now + 1
    /\ last' = NoCall
    /\ UNCHANGED <<syncing, log, want_stop, sync_key, media_enabled, running,
                   finished, cb, main_queue, delivered, start_stop, warnings>>
    /\ UNCHANGED noteVars

\* the user logs in: the profile stores a sync key
set_sync_key ==
    /\ sync_key = None
    /\ sync_key' = HKey
    /\ last' = NoCall
    /\ UNCHANGED <<syncing, log, want_stop, media_enabled, now, running, finished,
                   cb, main_queue, delivered, start_stop, warnings>>
    /\ UNCHANGED noteVars

\* the user switches media syncing on or off in the preferences.  The setting
\* is read by start() alone, and only when no run is in flight, so a change
\* made during a run is taken at the end of the run
set_media_syncing_enabled ==
    /\ InFlight = 0
    /\ media_enabled' = ~media_enabled
    /\ last' = NoCall
    /\ UNCHANGED <<syncing, log, want_stop, sync_key, now, running, finished,
                   cb, main_queue, delivered, start_stop, warnings>>
    /\ UNCHANGED noteVars

\* the steps that make the log longer are taken while it fits MaxLog
Next ==
    \/ start /\ Fits(MaxLog)'
    \/ abort /\ Fits(MaxLog)'
    \/ \E proceed \in BOOLEAN : on_rust_progress_other(proceed)
    \/ \E proceed \in BOOLEAN, val \in ProgressVals :
          on_rust_progress_append(proceed, val) /\ Fits(MaxLog)'
    \/ on_rust_progress_notify
    \/ on_rust_progress_return
    \/ sync_media_returns
    \/ \E exc \in Outcomes : on_finished(exc)
    \/ seconds_since_last_sync_call
    \/ run_on_main
    \/ tick
    \/ set_sync_key
    \/ set_media_syncing_enabled

Spec == Init /\ [][Next]_vars

\* The backend operation terminates (an assumption about sync_media(), stated
\* strongly because progress callbacks interrupt it), the worker runs its
\* callback to the end, and the task manager runs on_done on the main thread.
FairSpec ==
    /\ Spec
    /\ SF_vars(sync_media_returns)
    /\ WF_vars(on_rust_progress_notify)
    /\ WF_vars(on_rust_progress_return)
    /\ WF_vars(\E exc \in Outcomes : on_finished(exc))


\* The syncer within one second: every step of Next but the tick of the
\* clock, so that all entries bear the same time.  This leaves room for logs
\* that hold two whole runs.
RerunNext ==
    \/ start /\ Fits(MaxRerunLog)'
    \/ abort /\ Fits(MaxRerunLog)'
    \/ \E proceed \in BOOLEAN : on_rust_progress_other(proceed)
    \/ \E proceed \in BOOLEAN, val \in ProgressVals :
          on_rust_progress_append(proceed, val) /\ Fits(MaxRerunLog)'
    \/ on_rust_progress_notify
    \/ on_rust_progress_return
    \/ sync_media_returns
    \/ \E exc \in Outcomes : on_finished(exc)
    \/ seconds_since_last_sync_call
    \/ run_on_main
    \/ set_sync_key
    \/ set_media_syncing_enabled

RerunSpec == Init /\ [][RerunNext]_vars

\* =================================================================== notes
\* A field is a string, here a sequence of tokens: a letter, a blank or an
\* HTML tag.  The values the calls are tried with: empty, blank, plain text,
\* the same text inside markup, and another text.
HtmlTags == {"<b>", "</b>"}
FieldValues == {<<>>, <<" ">>, <<"a">>, <<"<b>", "a", "</b>">>, <<"a", "b">>}
TagValues == {"t"}

\* str.strip(): without its leading and trailing whitespace
RECURSIVE lstrip(_)
lstrip(s) == IF s # <<>> /\ Head(s) = " " THEN lstrip(Tail(s)) ELSE s
Reverse(s) == [i \in 1..Len(s) |-> s[Len(s) + 1 - i]]
strip(s) == Reverse(lstrip(Reverse(lstrip(s))))

\* anki.utils.stripHTMLMedia: the text without its markup
stripHTMLMedia(s) == SelectSeq(s, LAMBDA tok : tok \notin HtmlTags)

\* anki.utils.fieldChecksum: a number computed from the stripped text.  Two
\* texts can have the same one; here those of the same length parity do
fieldChecksum(data) == Len(stripHTMLMedia(data)) % 2

\* the note types of the collection, by id, and their field names in order
NoteTypeIds == {1, 2}
FieldNames(mid) == IF mid = 1 THEN <<"Front", "Back">> ELSE <<"Front">>

\* col.models.fieldMap(model): field name -> ordinal, counted from 0
FieldMaps ==
    [mid \in NoteTypeIds |->
        [name \in {FieldNames(mid)[i] : i \in 1..Len(FieldNames(mid))} |->
            (CHOOSE i \in 1..Len(FieldNames(mid)) : FieldNames(mid)[i] = name) - 1]]
fieldMap(mid) == FieldMaps[mid]

\* the keys the dict interface is tried with: "Back" is a field of one note
\* type only, "Extra" of none
Keys == {"Front", "Back", "Extra"}

\* the assignments note[key] = value tried: every value for the key of the
\* first field, one value for the other keys
SetItems ==
    ({"Front"} \X FieldValues) \cup ({"Back", "Extra"} \X {<<"a">>})

\* a row of the notes table, as the backend writes it: csum is the checksum
\* of the first field
Row(n) == [mid |-> n.mid, tags |-> n.tags, fields |-> n.fields,
           csum |-> fieldChecksum(n.fields[1])]

Called(op) == [NoRet EXCEPT !.op = op]

\* Note(col, model): a new note of the note type, every field empty, id 0
Note_new(mid) ==
    /\ note' = [id |-> 0, mid |-> mid, tags |-> <<>>,
                fields |-> [i \in 1..Len(FieldNames(mid)) |-> <<>>]]
    /\ ret' = Called("__init__")
    /\ UNCHANGED db
    /\ UNCHANGED mediaVars

\* Note(col, id=id): load() reads the stored note
Note_load(id) ==
    /\ id \in 1..Len(db)
    /\ note' = [id |-> id, mid |-> db[id].mid, tags |-> db[id].tags,
                fields |-> db[id].fields]
    /\ ret' = Called("load")
    /\ UNCHANGED db
    /\ UNCHANGED mediaVars

\* _fieldOrd(key) finds the key in self._fmap, and raises KeyError otherwise
HasField(key) == key \in DOMAIN fieldMap(note.mid)
fieldOrd(key) == fieldMap(note.mid)[key]

\* what note[key] returns for a key of the note type
getitem_value(key) == note.fields[fieldOrd(key) + 1]

\* note[key]
getitem(key) ==
    /\ note # NoNote
    /\ ret' = IF HasField(key)
              THEN Called("__getitem__")
              ELSE [Called("__getitem__") EXCEPT !.exc = "KeyError"]
    /\ UNCHANGED <<note, db>>
    /\ UNCHANGED mediaVars

\* note[key] = value that takes the ordinal for a position counted from 1
setitem_off_by_one(key, value) ==
    /\ note # NoNote
    /\ IF HasField(key)
       THEN /\ note' = [note EXCEPT
                          !.fields[IF fieldOrd(key) = 0 THEN Len(note.fields)
                                   ELSE fieldOrd(key)] = value]
            /\ ret' = Called("__setitem__")
       ELSE /\ note' = note
            /\ ret' = [Called("__setitem__") EXCEPT !.exc = "KeyError"]
    /\ UNCHANGED db
    /\ UNCHANGED mediaVars

\* note[key] = value
setitem(key, value) ==
    /\ note # NoNote
    /\ IF HasField(key)
       THEN /\ note' = [note EXCEPT !.fields[fieldOrd(key) + 1] = value]
            /\ ret' = Called("__setitem__")
       ELSE /\ note' = note
            /\ ret' = [Called("__setitem__") EXCEPT !.exc = "KeyError"]
    /\ UNCHANGED db
    /\ UNCHANGED mediaVars

\* note.addTag(tag); a note is given one tag at most here
addTag(tag) ==
    /\ note # NoNote
    /\ note.tags = <<>>
    /\ note' = [note EXCEPT !.tags = Append(note.tags, tag)]
    /\ ret' = Called("addTag")
    /\ UNCHANGED db
    /\ UNCHANGED mediaVars

\* the collection adds the new note: it is stored and given its id
add_note ==
    /\ note # NoNote
    /\ note.id = 0
    /\ Len(db) < MaxNotes
    /\ db' = Append(db, Row(note))
    /\ note' = [note EXCEPT !.id = Len(db) + 1]
    /\ ret' = Called("add_note")
    /\ UNCHANGED mediaVars

\* note.flush(): the stored note is overwritten by the note as it is now
flush ==
    /\ note # NoNote
    /\ IF note.id # 0
       THEN /\ db' = [db EXCEPT ![note.id] = Row(note)]
            /\ ret' = Called("flush")
       ELSE /\ db' = db
            /\ ret' = [Called("flush") EXCEPT !.exc = "AssertionError"]
    /\ UNCHANGED note
    /\ UNCHANGED mediaVars

\* col.db.list("select flds from notes where csum = ? and id != ? and mid = ?"):
\* the ids of the rows whose flds it returns
select_flds(csum, id, mid) ==
    {i \in 1..Len(db) : db[i].csum = csum /\ i # id /\ db[i].mid = mid}

\* dupeOrEmpty() whose query leaves out `id != ?`
dupeOrEmpty_counts_itself ==
    LET val == note.fields[1]
    IN  IF strip(val) = <<>> THEN 1
        ELSE LET csum == fieldChecksum(val)
             IN  IF \E i \in {j \in 1..Len(db) : db[j].csum = csum /\ db[j].mid = note.mid} :
                        stripHTMLMedia(db[i].fields[1]) = stripHTMLMedia(note.fields[1])
                 THEN 2
                 ELSE 0

\* dupeOrEmpty(): 1 if the first field is empty, 2 if it is a duplicate,
\* False (0) otherwise
dupeOrEmpty ==
    LET val == note.fields[1]
    IN  IF strip(val) = <<>> THEN 1
        ELSE LET csum == fieldChecksum(val)
             IN  IF \E i \in select_flds(csum, note.id, note.mid) :
                        stripHTMLMedia(db[i].fields[1]) = stripHTMLMedia(note.fields[1])
                 THEN 2
                 ELSE 0

\* a call of it: the note and the collection are read and left as they are
dupeOrEmpty_call ==
    /\ note # NoNote
    /\ ret' = Called("dupeOrEmpty")
    /\ UNCHANGED <<note, db>>
    /\ UNCHANGED mediaVars

NoteNext ==
    \/ \E mid \in NoteTypeIds : Note_new(mid)
    \/ \E id \in 1..MaxNotes : Note_load(id)
    \/ \E key \in Keys : getitem(key)
    \/ \E kv \in SetItems : setitem(kv[1], kv[2])
    \/ \E tag \in TagValues : addTag(tag)
    \/ add_note
    \/ flush
    \/ dupeOrEmpty_call

\* the media syncer constructed and left alone
NoteInit ==
    /\ Init
    /\ sync_key = None
    /\ ~media_enabled

NoteSpec == NoteInit /\ [][NoteNext]_vars

\* ------------------------------------------------------------------ claims
LastEntry(l) == l[Len(l)]

\* C1: at most one background media-sync operation is in flight, a second
\* one is never launched while the controller is Syncing, and the controller
\* is Syncing exactly while an operation launched by start() has not had its
\* completion handler run; a progress callback only runs inside it.
C1_SingleFlight ==
    /\ InFlight <= 1
    /\ syncing <=> InFlight = 1
    /\ cb.pc # "idle" => running = 1

\* start() was called again during a run that has logged progress and an abort
C1_Witness ==
    /\ last.op = "start"
    /\ last.was_syncing
    /\ syncing
    /\ InFlight = 1
    /\ Len(log) >= 3

\* C2: start() while Syncing is a no-op: the log, the syncing flag and the
\* cancellation flag are unchanged, no observer is notified (neither of a
\* log entry nor of a start/stop) and no operation is launched.
C2_StartWhileSyncingNoOp ==
    [][(syncing /\ start) =>
          UNCHANGED <<log, syncing, want_stop, main_queue, delivered, start_stop,
                      running, finished, warnings, sync_key>>]_vars

\* the second start() of a run whose cancellation was requested
C2_Witness ==
    /\ last.op = "start"
    /\ last.was_syncing
    /\ syncing
    /\ want_stop

\* C3: whatever the outcome of the operation, the completion handler leaves
\* the controller Idle and notifies the observers of the stop, also when it
\* re-raises; and, the backend operation terminating, every Syncing state is
\* followed by an Idle one.
C3_CompletionReturnsToIdle ==
    /\ [][\A exc \in Outcomes : on_finished(exc) =>
            /\ ~syncing'
            /\ start_stop' = Append(start_stop, FALSE)]_vars
    /\ syncing ~> ~syncing

\* a run ended with an unclassified failure, re-raised, and the controller is Idle
C3_Witness ==
    /\ last.op = "_on_finished"
    /\ last.was_syncing
    /\ last.exc \in Unclassified
    /\ last.raised
    /\ ~syncing
    /\ LastEntry(start_stop) = FALSE

\* C4: right after a run completes successfully, is_syncing() is false and
\* the last entry of the log is "Media sync complete.", whatever progress
\* callbacks and abort() calls happened during the run.
C4_SuccessLogsComplete ==
    [][on_finished(NoException) =>
          /\ ~syncing'
          /\ LastEntry(log') = LogEntryWithTime(now, Str(MsgComplete))]_vars

\* a successful completion of a run with a progress entry and an abort()
C4_Witness ==
    /\ last.op = "_on_finished"
    /\ last.exc = NoException
    /\ ~syncing
    /\ want_stop
    /\ Len(log) = 4
    /\ log[2].entry \in ProgressVals
    /\ log[3].entry = Str(MsgAborting)
    /\ log[4].entry = Str(MsgComplete)

\* C5: abort() while not Syncing is a no-op: the log and the cancellation
\* flag are unchanged, no observer is notified and the controller stays Idle.
C5_AbortWhileIdleNoOp ==
    [][(~syncing /\ abort) =>
          UNCHANGED <<log, want_stop, syncing, main_queue, delivered, start_stop,
                      running, finished, warnings, sync_key>>]_vars

\* abort() after a run has completed
C5_Witness ==
    /\ last.op = "abort"
    /\ ~last.was_syncing
    /\ ~syncing
    /\ Len(log) >= 2
    /\ start_stop # <<>>
    /\ LastEntry(start_stop) = FALSE

\* C6: abort() during a run appends "Media sync aborting...", sets the
\* cancellation flag and leaves the controller Syncing; a MediaSyncProgress
\* callback invoked after it during the run appends its entry to the log and
\* returns False, whatever `proceed` it was given.
C6_CooperativeCancel ==
    /\ [][(syncing /\ abort) =>
            /\ log' = Append(log, LogEntryWithTime(now, Str(MsgAborting)))
            /\ want_stop'
            /\ syncing']_vars
    /\ [][\A proceed \in BOOLEAN, val \in ProgressVals :
            (want_stop /\ on_rust_progress_append(proceed, val)) =>
                /\ log' = Append(log, LogEntryWithTime(now, val))
                /\ cb'.stop_at_entry]_vars
    /\ [][(on_rust_progress_return /\ cb.stop_at_entry) =>
            /\ syncing
            /\ last'.ret = FALSE
            /\ \E i \in 1..Len(log) : log[i] = cb.entry]_vars

\* a callback given proceed = True after abort() has returned False
C6_Witness ==
    /\ last.op = "_on_rust_progress"
    /\ last.kind = "MediaSyncProgress"
    /\ last.stop_at_entry
    /\ last.proceed
    /\ ~last.ret
    /\ syncing
    /\ \E i \in 1..Len(log) : \E j \in 1..Len(log) :
          /\ i < j
          /\ log[i].entry = Str(MsgAborting)
          /\ log[j].entry \in ProgressVals

\* C7: start() while Idle without a sync key, or with media syncing
\* disabled, starts no run: the controller stays Idle, the cancellation flag
\* is unchanged, no start/stop notification is sent and no operation is
\* launched.
C7_StartRefusedStaysIdle ==
    [][(~syncing /\ (sync_key = None \/ ~media_enabled) /\ start) =>
          /\ ~syncing'
          /\ UNCHANGED <<want_stop, start_stop, running, finished>>]_vars

\* start() without a sync key, the cancellation flag still set by the run
\* whose authentication failure removed the key
C7_Witness ==
    /\ last.op = "start"
    /\ ~last.was_syncing
    /\ sync_key = None
    /\ ~syncing
    /\ want_stop
    /\ InFlight = 0

\* C8 as stated: a start() refused for a missing sync key or for disabled
\* syncing leaves the log exactly one entry longer.
C8_RefusedStartAlwaysLogs ==
    [][(~syncing /\ (sync_key = None \/ ~media_enabled) /\ start) =>
          Len(log') = Len(log) + 1]_vars

\* C8, amended: a start() refused because media syncing is disabled (a sync
\* key being stored) appends exactly the entry "Media syncing disabled." and
\* queues its notification; a start() refused for a missing sync key leaves
\* the log unchanged and notifies nobody, media syncing enabled or not.
C8_RefusedStartLogsOnlyWhenDisabled ==
    [][(~syncing /\ (sync_key = None \/ ~media_enabled) /\ start) =>
          IF sync_key = None
          THEN UNCHANGED <<log, main_queue>>
          ELSE /\ log' = Append(log, LogEntryWithTime(now, Str(MsgDisabled)))
               /\ main_queue' = Append(main_queue, LogEntryWithTime(now, Str(MsgDisabled)))]_vars

\* a start() refused for disabled syncing, a sync key being stored, has logged
C8_Witness ==
    /\ last.op = "start"
    /\ ~last.was_syncing
    /\ ~syncing
    /\ sync_key # None
    /\ ~media_enabled
    /\ log # <<>>
    /\ LastEntry(log).entry = Str(MsgDisabled)

\* C9 as stated: seconds_since_last_sync() is 0 during a run, now minus the
\* time of the last log entry when Idle, and 0 when the log is empty.
C9_ZeroWhenLogEmpty ==
    /\ syncing => seconds_since_last_sync = 0
    /\ (~syncing /\ log # <<>>) => seconds_since_last_sync = now - LastEntry(log).time
    /\ (~syncing /\ log = <<>>) => seconds_since_last_sync = 0

\* C9, amended: seconds_since_last_sync() is 0 at every point of a run (from
\* the launch of the operation to its completion handler); when Idle it is
\* now minus the time of the last log entry, and with an empty log it is
\* now itself (now - 0), not 0.
C9_SecondsSinceLastSync ==
    /\ InFlight > 0 => seconds_since_last_sync = 0
    /\ (~syncing /\ log # <<>>) => seconds_since_last_sync = now - LastEntry(log).time
    /\ (~syncing /\ log = <<>>) => seconds_since_last_sync = now

\* seconds_since_last_sync() is 0 during a run whose operation has returned,
\* a second after the last entry was logged
C9_Witness ==
    /\ syncing
    /\ finished = 1
    /\ log # <<>>
    /\ now > LastEntry(log).time
    /\ seconds_since_last_sync = 0

\* what _on_finished does after it has notified the observers of the stop
AfterStop(effects) == SubSeq(effects, 2, Len(effects))

\* C10 as stated: every failure appends exactly one "Media sync failed."
\* entry, followed by exactly one showWarning() call.
C10_EveryFailureWarns ==
    [][\A exc \in Failures : on_finished(exc) =>
          /\ log' = Append(log, LogEntryWithTime(now, Str(MsgFailed)))
          /\ warnings' = warnings + 1]_vars

\* C10, amended: every failure appends exactly one "Media sync failed."
\* entry (and queues its notification).  For a SyncError, a NetworkError or a
\* DBError exactly one showWarning() call follows it (after the removal of
\* the sync key, for an authentication failure); for an unclassified failure
\* no showWarning() call is made: the exception is raised again.
C10_FailureLogsOnceThenWarnsOrRaises ==
    [][\A exc \in Failures : on_finished(exc) =>
          LET then == AfterStop(last'.effects) IN
          /\ log' = Append(log, LogEntryWithTime(now, Str(MsgFailed)))
          /\ main_queue' = Append(main_queue, LogEntryWithTime(now, Str(MsgFailed)))
          /\ then[1] = Log(MsgFailed)
          /\ Len(Doing(then, "_log_and_notify")) = 1
          /\ IF exc \in Unclassified
             THEN /\ warnings' = warnings
                  /\ then = <<Log(MsgFailed), Raise(exc)>>
                  /\ last'.raised
             ELSE /\ warnings' = warnings + 1
                  /\ Len(Doing(then, "showWarning")) = 1
                  /\ then[Len(then)].do = "showWarning"
                  /\ ~last'.raised]_vars

\* a run that ended with a database error: one entry, one warning
C10_Witness ==
    /\ last.op = "_on_finished"
    /\ last.exc \in DBError
    /\ AfterStop(last.effects) = <<Log(MsgFailed), ShowWarning(WarnDB)>>
    /\ warnings = 1
    /\ LastEntry(log).entry = Str(MsgFailed)

AuthFailed == [type |-> "SyncError", kind |-> "AUTH_FAILED"]

\* C11: a completion with an AUTH_FAILED SyncError removes the stored sync
\* key and a completion with any other outcome leaves it as it is; while no
\* key is stored every start() of the Idle controller changes nothing and
\* leaves it Idle; and a key is only stored again by a login.
C11_AuthFailureClearsKey ==
    /\ [][\A exc \in Outcomes : on_finished(exc) =>
            sync_key' = (IF exc = AuthFailed THEN None ELSE sync_key)]_vars
    /\ [][(~syncing /\ sync_key = None /\ start) =>
            /\ ~syncing'
            /\ UNCHANGED <<log, want_stop, sync_key, main_queue, delivered,
                           start_stop, running, finished, warnings>>]_vars
    /\ [][(sync_key = None /\ sync_key' # None) => set_sync_key]_vars

\* start() with media syncing enabled, after a run that began with a stored
\* key and ended with an authentication failure: nothing is launched
C11_Witness ==
    /\ last.op = "start"
    /\ ~last.was_syncing
    /\ sync_key = None
    /\ media_enabled
    /\ ~syncing
    /\ InFlight = 0
    /\ warnings = 1
    /\ Len(log) = 2
    /\ log[1].entry = Str(MsgStarting)
    /\ log[2].entry = Str(MsgFailed)

\* the failures _handle_sync_error has a branch with a showWarning() for
Classified == SyncErrors \cup NetworkErrors \cup DBError

\* C12 as stated: an unclassified failure is raised again; every other
\* outcome, success and cancellation included, raises nothing and gives one
\* log entry and one showWarning() call.
C12_OthersLogAndWarn ==
    [][\A exc \in Outcomes : on_finished(exc) =>
          /\ last'.raised <=> exc \in Unclassified
          /\ exc \notin Unclassified =>
                /\ Len(log') = Len(log) + 1
                /\ warnings' = warnings + 1]_vars

\* C12, amended: the completion handler raises exactly when the failure is
\* unclassified, and then raises that failure as its last act.  Every other
\* outcome raises nothing and appends exactly one log entry; a SyncError (of
\* any kind), a NetworkError (of any kind) or a DBError also gives exactly one
\* showWarning() call, a success or a cancellation gives none.
C12_OnlyUnclassifiedRaised ==
    [][\A exc \in Outcomes : on_finished(exc) =>
          LET then == AfterStop(last'.effects) IN
          /\ last'.raised <=> exc \in Unclassified
          /\ exc \in Unclassified =>
                /\ then[Len(then)] = Raise(exc)
                /\ Len(Doing(then, "raise")) = 1
          /\ exc \notin Unclassified =>
                /\ Doing(then, "raise") = <<>>
                /\ Len(log') = Len(log) + 1
                /\ Len(Doing(then, "_log_and_notify")) = 1
          /\ warnings' = warnings + (IF exc \in Classified THEN 1 ELSE 0)
          /\ Len(Doing(then, "showWarning")) = (IF exc \in Classified THEN 1 ELSE 0)]_vars

\* a SyncError of a kind the handler does not know was reported, not raised
C12_Witness ==
    /\ last.op = "_on_finished"
    /\ last.exc = [type |-> "SyncError", kind |-> "OTHER"]
    /\ ~last.raised
    /\ AfterStop(last.effects) = <<Log(MsgFailed), ShowWarning(WarnUnexpected)>>
    /\ warnings = 1

\* l is an initial part of m
IsPrefix(l, m) == Len(l) <= Len(m) /\ l = SubSeq(m, 1, Len(l))

\* C13: the log is append-only: every step of the controller (start(),
\* abort(), a progress callback, a completion, a query) leaves the log it
\* found as the initial part of the log it leaves, every entry it adds
\* carries the time of the step, and so the entries are in the order they
\* were appended in, oldest first.
C13_LogAppendOnly ==
    /\ [][/\ IsPrefix(log, log')
           /\ \A i \in (Len(log) + 1)..Len(log') : log'[i].time = now]_vars
    /\ [](\A i \in 1..Len(log) : \A j \in 1..Len(log) :
             i <= j => log[i].time <= log[j].time)

\* a run with a progress entry and an abort() has completed a second after
\* it was started: four entries, from four operations
C13_Witness ==
    /\ Len(log) = 4
    /\ log[1] = LogEntryWithTime(1, Str(MsgStarting))
    /\ log[2].entry \in ProgressVals
    /\ log[3].entry = Str(MsgAborting)
    /\ log[4] = LogEntryWithTime(2, Str(MsgAborted))

\* C14 as stated, its order part: the observers of media_sync_did_progress
\* are given the entries of the log in the order of the log, each once and
\* none left out: what they have seen is an initial part of the log.
C14_DeliveredInLogOrder == IsPrefix(delivered, log)

\* the first field is empty or holds whitespace only
Blank(value) == \A i \in 1..Len(value) : value[i] = " "

\* a stored note of the same note type and another id whose first field has
\* the same text as the note's, markup left aside
HasDuplicate ==
    \E i \in 1..Len(db) :
        /\ i # note.id
        /\ db[i].mid = note.mid
        /\ stripHTMLMedia(db[i].fields[1]) = stripHTMLMedia(note.fields[1])

\* C15: dupeOrEmpty() is 1 (Empty) exactly when the first field is empty or
\* whitespace only, whatever is stored; otherwise it is 2 (Duplicate) exactly
\* when a stored note of the same note type and a different id has a first
\* field with the same stripped text, and False (Unique) otherwise.
C15_DupeOrEmpty ==
    note # NoNote =>
        dupeOrEmpty = (IF Blank(note.fields[1]) THEN 1
                       ELSE IF HasDuplicate THEN 2
                       ELSE 0)

\* dupeOrEmpty() was called on a new note whose first field has the text of
\* the stored note's, inside markup the stored one does not have
C15_Witness ==
    /\ ret.op = "dupeOrEmpty"
    /\ note.id = 0
    /\ Len(db) = 1
    /\ db[1].mid = note.mid
    /\ db[1].fields[1] = <<"a">>
    /\ note.fields[1] = <<"<b>", "a", "</b>">>
    /\ dupeOrEmpty = 2

\* C16: note[key] = value with a key of the note type makes note[key] return
\* value, and leaves the other fields, the tags, the id, the note type and
\* the stored notes as they were; with any other key both note[key] = value
\* and note[key] raise KeyError and change nothing.
C16_SetThenGet ==
    /\ [][\A kv \in SetItems : (ret'.op = "__setitem__" /\ setitem(kv[1], kv[2])) =>
            IF HasField(kv[1])
            THEN /\ ret'.exc = None
                 /\ getitem_value(kv[1])' = kv[2]
                 /\ Len(note'.fields) = Len(note.fields)
                 /\ \A i \in 1..Len(note.fields) :
                       i # fieldOrd(kv[1]) + 1 => note'.fields[i] = note.fields[i]
                 /\ note'.tags = note.tags
                 /\ note'.id = note.id
                 /\ note'.mid = note.mid
                 /\ db' = db
            ELSE /\ ret'.exc = "KeyError"
                 /\ UNCHANGED <<note, db>>]_vars
    /\ [][\A key \in Keys : (ret'.op = "__getitem__" /\ getitem(key)) =>
            /\ ret'.exc = (IF HasField(key) THEN None ELSE "KeyError")
            /\ UNCHANGED <<note, db>>]_vars

\* "Back" was set on a stored, tagged note whose "Front" is not empty: the
\* stored row still has the old "Back"
C16_Witness ==
    /\ ret.op = "__setitem__"
    /\ ret.exc = None
    /\ note.id = 1
    /\ note.mid = 1
    /\ note.tags # <<>>
    /\ note.fields = << <<"a", "b">>, <<"a">> >>
    /\ db[1].fields = << <<"a", "b">>, <<>> >>

\* C17 as stated: the log is changed on the main thread only.  No step of
\* the worker inside _on_rust_progress changes the log, and start(), abort()
\* and _on_finished() never run while the worker is between the append of an
\* entry and the hand-over of its notification.
C17_LogChangedOnMainThreadOnly ==
    /\ [][cb' # cb => log' = log]_vars
    /\ [][(start \/ abort \/ \E exc \in Outcomes : on_finished(exc)) =>
            cb.pc # "appended"]_vars

\* abort() was called in the run that is in flight or was the last one
AbortedThisRun ==
    \E i \in 1..Len(log) :
        /\ log[i].entry = Str(MsgAborting)
        /\ \A j \in (i + 1)..Len(log) : log[j].entry # Str(MsgStarting)

\* C18: a start() that launches a run leaves the cancellation flag reset,
\* whatever it was; and a MediaSyncProgress callback of a run in which
\* abort() has not been called returns the `proceed` it was given, also when
\* an earlier run was aborted.
C18_StartResetsWantStop ==
    /\ [][(~syncing /\ start /\ syncing') => ~want_stop']_vars
    /\ [](syncing /\ ~AbortedThisRun => ~want_stop)
    /\ [][(on_rust_progress_return /\ ~AbortedThisRun) =>
            /\ last'.ret = cb.proceed
            /\ ~cb.stop_at_entry]_vars

\* a callback given proceed = True has returned True in the second run, the
\* first run having been aborted
C18_Witness ==
    /\ last.op = "_on_rust_progress"
    /\ last.proceed
    /\ last.ret
    /\ syncing
    /\ ~want_stop
    /\ Len(log) = 5
    /\ log[1].entry = Str(MsgStarting)
    /\ log[2].entry = Str(MsgAborting)
    /\ log[3].entry = Str(MsgAborted)
    /\ log[4].entry = Str(MsgStarting)
    /\ log[5].entry \in ProgressVals

\* C19: a completion that reports cancellation appends exactly one entry,
\* "Media sync aborted.", and does nothing else beyond ending the run: no
\* "Media sync failed." entry, no showWarning(), the sync key is kept and
\* nothing is raised.
C19_CancellationLogsAbortedOnly ==
    [][on_finished(Interrupted) =>
          /\ log' = Append(log, LogEntryWithTime(now, Str(MsgAborted)))
          /\ main_queue' = Append(main_queue, LogEntryWithTime(now, Str(MsgAborted)))
          /\ AfterStop(last'.effects) = <<Log(MsgAborted)>>
          /\ warnings' = warnings
          /\ sync_key' = sync_key
          /\ ~last'.raised]_vars

\* a run with a stored sync key has ended by cancellation
C19_Witness ==
    /\ last.op = "_on_finished"
    /\ last.exc = Interrupted
    /\ last.was_syncing
    /\ sync_key = HKey
    /\ log # <<>>
    /\ LastEntry(log).entry = Str(MsgAborted)

\* C20: abort() while Syncing leaves the operation in flight and the
\* controller Syncing; only the completion handler ends Syncing; and a run
\* that succeeds with "Media sync aborting..." as its latest entry, no
\* progress callback having observed the request, gets "Media sync
\* complete." appended right after it and no "Media sync aborted." entry.
C20_AbortNeverPreempts ==
    /\ [][(syncing /\ abort) =>
            /\ syncing'
            /\ want_stop'
            /\ running' + finished' = 1
            /\ UNCHANGED <<running, finished, cb, start_stop>>]_vars
    /\ [][(syncing /\ ~syncing') => \E exc \in Outcomes : on_finished(exc)]_vars
    /\ [][(on_finished(NoException) /\ log # <<>>
              /\ LastEntry(log).entry = Str(MsgAborting)) =>
            /\ want_stop
            /\ log' = Append(log, LogEntryWithTime(now, Str(MsgComplete)))
            /\ LastEntry(log').entry # Str(MsgAborted)]_vars

\* a run aborted right after its start has succeeded: no progress callback
\* ran after abort()
C20_Witness ==
    /\ last.op = "_on_finished"
    /\ last.exc = NoException
    /\ want_stop
    /\ ~syncing
    /\ Len(log) = 3
    /\ log[1].entry = Str(MsgStarting)
    /\ log[2].entry = Str(MsgAborting)
    /\ log[3].entry = Str(MsgComplete)

====
